---- MODULE Spec2Model ----
(***************************************************************************)
(* A model of the PDF reader scripts                                       *)
(*   src/PDF READER/pdf_reader_new.py      (variant "new":  PyMuPDF pass   *)
(*                                          for images, pdfplumber pass    *)
(*                                          for text and tables)           *)
(*   src/PDF READER/pdf_reader_program.py  (variant "program": one         *)
(*                                          pdfplumber pass)               *)
(* Characters are one-character strings, a text is a sequence of them.     *)
(***************************************************************************)
EXTENDS Integers, Sequences, FiniteSets, TLC

VARIABLES
    variant,    \* which script the PDFReader class comes from
    pdf,        \* the document at self.pdf_path: [openable, pages]
    data,       \* self.data: the five lists
    fs,         \* the filesystem: [dirs, files]
    handles,    \* the document handles that are open
    pc,         \* position inside extract_all, "idle" outside of it
    page,       \* the page the running loop is at (1-based)
    args,       \* the arguments of the running (or last) extract_all call
    outcome,    \* how the last extract_all call ended
    results,    \* the references extract_all returned, in call order
    calls,      \* the arguments of the calls that returned, in call order
    nfailed,    \* the number of calls that raised
    trace,      \* the extraction steps of the running (or last) call, in order
    log,        \* the per-image errors the running (or last) call printed
    mark,       \* the lengths of the five lists when the call started
    fs0,        \* the filesystem when the call started
    lastOp,     \* the last public method that was called
    nexports,   \* the number of export calls so far
    rx_text,    \* the text handed to the recognizers
    rx_urls,    \* what _extract_urls returned for rx_text
    rx_matches, \* the matches re.findall found inside _extract_numbers
    rx_numbers, \* what _extract_numbers returned for rx_text
    rx_done     \* which recognizers have run on rx_text

vars == <<variant, pdf, data, fs, handles, pc, page, args, outcome, results,
          calls, nfailed, trace, log, mark, fs0, lastOp, nexports,
          rx_text, rx_urls, rx_matches, rx_numbers, rx_done>>

pipeVars == <<variant, pdf, data, fs, handles, pc, page, args, outcome, results,
              calls, nfailed, trace, log, mark, fs0, lastOp,
              nexports>>

rxVars == <<rx_text, rx_urls, rx_matches, rx_numbers, rx_done>>

(***************************************************************************)
(* Bounds of the model.                                                    *)
(***************************************************************************)
MaxPages == 2
MaxCalls == 2
MaxExports == 2
MaxSegs == 3
MaxNumLen == 4

(***************************************************************************)
(* Characters.                                                             *)
(***************************************************************************)
Ord ==
    ("a" :> 97) @@ ("b" :> 98) @@ ("c" :> 99) @@ ("d" :> 100) @@ ("e" :> 101)
    @@ ("g" :> 103) @@ ("h" :> 104) @@ ("i" :> 105) @@ ("k" :> 107)
    @@ ("l" :> 108) @@ ("m" :> 109) @@ ("n" :> 110) @@ ("o" :> 111)
    @@ ("p" :> 112) @@ ("s" :> 115) @@ ("t" :> 116) @@ ("x" :> 120)
    @@ ("T" :> 84) @@ ("F" :> 70) @@ ("Z" :> 90)
    @@ ("0" :> 48) @@ ("1" :> 49) @@ ("2" :> 50) @@ ("3" :> 51) @@ ("4" :> 52)
    @@ ("5" :> 53) @@ ("7" :> 55) @@ ("9" :> 57)
    @@ (" " :> 32) @@ ("!" :> 33) @@ ("\"" :> 34) @@ ("#" :> 35) @@ ("$" :> 36)
    @@ ("%" :> 37) @@ ("&" :> 38) @@ ("(" :> 40) @@ (")" :> 41) @@ ("*" :> 42)
    @@ ("+" :> 43) @@ ("," :> 44) @@ ("-" :> 45) @@ ("." :> 46) @@ ("/" :> 47)
    @@ (":" :> 58) @@ ("=" :> 61) @@ ("?" :> 63) @@ ("@" :> 64) @@ ("\\" :> 92)
    @@ ("_" :> 95) @@ ("~" :> 126)

Alphabet == DOMAIN Ord

Range(s) == {s[i] : i \in 1..Len(s)}

\* text[i : i + Len(lit)] == lit
HasAt(text, i, lit) ==
    /\ i + Len(lit) - 1 <= Len(text)
    /\ \A k \in 1..Len(lit) : text[i + k - 1] = lit[k]

(***************************************************************************)
(* _extract_urls: the pattern                                              *)
(*   http[s]?://(?:[a-zA-Z]|[0-9]|[$-_@.&+]|[!*\\(\\),]|(?:%XX))+          *)
(***************************************************************************)
IsAlpha(c) == Ord[c] \in (Ord["a"]..122) \cup (65..Ord["Z"])

IsDigit(c) == Ord[c] \in Ord["0"]..Ord["9"]

IsHex(c) == IsDigit(c) \/ Ord[c] \in (Ord["a"]..102) \cup (65..Ord["F"])

\* The mutant of DollarToUnderscore: "$", "-" and "_" read as three literals.
DollarMinusUnderscoreLiterals(c) == c \in {"$", "-", "_"}

\* "$-_" inside a character class is the range from "$" to "_".
DollarToUnderscore(c) == Ord[c] \in Ord["$"]..Ord["_"]

\* [$-_@.&+]
InClass3(c) == DollarToUnderscore(c) \/ c \in {"@", ".", "&", "+"}

\* [!*\\(\\),] : in a raw string "\\" is an escaped backslash
InClass4(c) == c \in {"!", "*", "\\", "(", ")", ","}

\* The length of the unit the alternation matches at text[i], 0 for none; the
\* alternatives are tried in the pattern's order.
UrlUnitLen(text, i) ==
    IF i > Len(text) THEN 0
    ELSE IF IsAlpha(text[i]) THEN 1
    ELSE IF IsDigit(text[i]) THEN 1
    ELSE IF InClass3(text[i]) THEN 1
    ELSE IF InClass4(text[i]) THEN 1
    ELSE IF /\ text[i] = "%"
            /\ i + 2 <= Len(text)
            /\ IsHex(text[i + 1])
            /\ IsHex(text[i + 2]) THEN 3
    ELSE 0

\* (...)+ is greedy: the index just past the last unit of the run starting at i.
RECURSIVE UrlRunEnd(_, _)
UrlRunEnd(text, i) ==
    LET n == UrlUnitLen(text, i)
    IN  IF n = 0 THEN i ELSE UrlRunEnd(text, i + n)

\* The index just past the match that starts at i, 0 when none starts there.
UrlMatchEnd(text, i) ==
    IF ~HasAt(text, i, <<"h", "t", "t", "p">>) THEN 0
    ELSE LET j == IF HasAt(text, i + 4, <<"s", ":", "/", "/">>) THEN i + 5 ELSE i + 4
         IN  IF ~HasAt(text, j, <<":", "/", "/">>) THEN 0
             ELSE LET e == UrlRunEnd(text, j + 3)
                  IN  IF e > j + 3 THEN e ELSE 0

\* re.findall: the non-overlapping matches, scanning from the left.
RECURSIVE UrlMatches(_, _)
UrlMatches(text, i) ==
    IF i > Len(text) THEN << >>
    ELSE LET e == UrlMatchEnd(text, i)
         IN  IF e = 0 THEN UrlMatches(text, i + 1)
             ELSE <<[start |-> i, end |-> e - 1]>> \o UrlMatches(text, e)

\* list(set(urls)): the distinct matched substrings.
ExtractUrls(text) ==
    {SubSeq(text, m.start, m.end) : m \in Range(UrlMatches(text, 1))}

(***************************************************************************)
(* _extract_numbers: the pattern -?\d+\.?\d* and the int / float parse.    *)
(***************************************************************************)
\* \d* (and the tail of \d+): the index just past the digits starting at i.
RECURSIVE DigitsEnd(_, _)
DigitsEnd(text, i) ==
    IF i <= Len(text) /\ IsDigit(text[i]) THEN DigitsEnd(text, i + 1) ELSE i

\* The mutant of AfterPoint: the point needs a digit after it.
AfterPointNeedsDigit(text, i) ==
    IF i + 1 <= Len(text) /\ text[i] = "." /\ IsDigit(text[i + 1])
    THEN DigitsEnd(text, i + 1)
    ELSE i

\* \.?\d* at i: the index just past it.
AfterPoint(text, i) ==
    IF i <= Len(text) /\ text[i] = "." THEN DigitsEnd(text, i + 1)
    ELSE DigitsEnd(text, i)

\* The index just past the match that starts at i, 0 when none starts there.
NumberMatchEnd(text, i) ==
    LET d == IF text[i] = "-" THEN i + 1 ELSE i
    IN  IF d <= Len(text) /\ IsDigit(text[d])
        THEN AfterPoint(text, DigitsEnd(text, d))
        ELSE 0

RECURSIVE NumberMatches(_, _)
NumberMatches(text, i) ==
    IF i > Len(text) THEN << >>
    ELSE LET e == NumberMatchEnd(text, i)
         IN  IF e = 0 THEN NumberMatches(text, i + 1)
             ELSE <<[start |-> i, end |-> e - 1]>> \o NumberMatches(text, e)

\* The value of a run of decimal digits.
RECURSIVE DigitsValue(_)
DigitsValue(ds) ==
    IF ds = << >> THEN 0
    ELSE 10 * DigitsValue(SubSeq(ds, 1, Len(ds) - 1)) + (Ord[ds[Len(ds)]] - Ord["0"])

\* A decimal mant / 10^scale without trailing zeros in its fraction: two floats
\* are equal exactly when their reduced forms are.
RECURSIVE Reduce(_, _)
Reduce(mant, scale) ==
    IF scale > 0 /\ mant % 10 = 0 THEN Reduce(mant \div 10, scale - 1)
    ELSE [kind |-> "float", mant |-> mant, scale |-> scale]

\* int(n): an optional sign and digits.
ParseInt(tok) ==
    IF tok[1] = "-"
    THEN [kind |-> "int", value |-> 0 - DigitsValue(Tail(tok))]
    ELSE [kind |-> "int", value |-> DigitsValue(tok)]

\* float(n) for a token with a point: sign, digits, ".", digits.
ParseFloat(tok) ==
    LET neg == tok[1] = "-"
        body == IF neg THEN Tail(tok) ELSE tok
        dot == CHOOSE k \in 1..Len(body) : body[k] = "."
        digits == SubSeq(body, 1, dot - 1) \o SubSeq(body, dot + 1, Len(body))
        m == DigitsValue(digits)
    IN  Reduce(IF neg THEN 0 - m ELSE m, Len(body) - dot)

\* float(n) if '.' in n else int(n)
ParseNumber(tok) == IF "." \in Range(tok) THEN ParseFloat(tok) ELSE ParseInt(tok)

\* [... for n in numbers if n]
ExtractNumbers(text) ==
    LET ms == NumberMatches(text, 1)
        toks == [k \in 1..Len(ms) |-> SubSeq(text, ms[k].start, ms[k].end)]
        kept == SelectSeq(toks, LAMBDA t : t # << >>)
    IN  [k \in 1..Len(kept) |-> ParseNumber(kept[k])]

(***************************************************************************)
(* The document and what its collaborators return.                         *)
(***************************************************************************)
None == [none |-> TRUE, s |-> << >>]

Some(s) == [none |-> FALSE, s |-> s]

\* Python's truth value of a text: None and "" are false.
Truthy(v) == ~v.none /\ v.s # << >>

RECURSIVE Flatten(_)
Flatten(seqs) == IF seqs = << >> THEN << >> ELSE Head(seqs) \o Flatten(Tail(seqs))

TextA == <<"h", "t", "t", "p", ":", "/", "/", "a", ",", " ", "7">>

TextB == <<"x">>

\* A ragged table with an absent cell and a cell holding the delimiter.
TableA == << <<Some(<<"a">>), None>>, <<Some(<<"b", ",", "c">>)>> >>

TableB == << <<Some(<< >>)>> >>

\* An embedded image object: extract_image raises for "bad_extract", Image.open
\* raises for "bad_decode".
ImgOk ==
    [status |-> "ok", ext |-> "png", bytes |-> <<"png-bytes">>,
     nbytes |-> 1536, width |-> 2, height |-> 1]

ImgNoExtract ==
    [status |-> "bad_extract", ext |-> "png", bytes |-> << >>,
     nbytes |-> 0, width |-> 0, height |-> 0]

ImgNoDecode ==
    [status |-> "bad_decode", ext |-> "jpeg", bytes |-> <<"truncated-jpeg">>,
     nbytes |-> 512, width |-> 0, height |-> 0]

\* fails names the page-level collaborator call that raises on this page:
\* extract_text, extract_tables, or the image listing (get_images / page.images).
BasePage ==
    [text |-> Some(TextA), tables |-> <<TableA>>, images |-> <<ImgOk>>,
     fails |-> "none"]

PageKinds ==
    {BasePage,
     [BasePage EXCEPT !.text = None, !.tables = << >>, !.images = << >>],
     [BasePage EXCEPT !.text = Some(<< >>), !.tables = <<TableA, TableB>>,
                      !.images = <<ImgNoDecode, ImgOk>>],
     [BasePage EXCEPT !.text = Some(TextB), !.images = <<ImgOk, ImgNoExtract>>]}
    \cup {[BasePage EXCEPT !.fails = f] : f \in {"text", "tables", "images"}}

PageLists == UNION {[1..n -> PageKinds] : n \in 0..MaxPages}

Documents ==
    {[openable |-> FALSE, pages |-> << >>]}
    \cup {[openable |-> TRUE, pages |-> ps] : ps \in PageLists}

(***************************************************************************)
(* self.data and the filesystem.                                           *)
(***************************************************************************)
ListNames == {"text", "tables", "images", "urls", "numbers"}

EmptyData ==
    [text |-> << >>, tables |-> << >>, images |-> << >>, urls |-> << >>,
     numbers |-> << >>]

EmptyFs == [dirs |-> {}, files |-> << >>]

\* os.makedirs(d, exist_ok=True)
MakeDirs(f, d) == [f EXCEPT !.dirs = @ \cup {d}]

\* The content of path after open(path, 'a') and a write of content.
AppendedContent(f, path, content) ==
    IF path \in DOMAIN f.files THEN f.files[path] \o content ELSE content

\* The content of path after open(path, 'w') and a write of content: the file
\* is truncated first.
WrittenContent(f, path, content) == content

WriteFile(f, path, content) ==
    [f EXCEPT !.files =
        [q \in (DOMAIN f.files) \cup {path} |->
            IF q = path THEN WrittenContent(f, path, content) ELSE f.files[q]]]

\* The writes of ws, a sequence of [path, content], applied in order.
RECURSIVE WriteAll(_, _)
WriteAll(f, ws) ==
    IF ws = << >> THEN f
    ELSE WriteAll(WriteFile(f, Head(ws).path, Head(ws).content), Tail(ws))

\* f"{output_dir}/page{p}_img{i}.{ext}"
ImagePath(dir, p, i, ext) ==
    <<dir, "/page", ToString(p), "_img", ToString(i), ".", ext>>

\* f"{output_dir}/page{p}_table{n}.csv"
TablePath(dir, p, n) ==
    <<dir, "/page", ToString(p), "_table", ToString(n), ".", "csv">>

\* f"{width}x{height}"
FormatSize(w, h) == <<ToString(w), "x", ToString(h)>>

\* f"{nbytes / 1024:.2f} KB"
FormatKB(nbytes) ==
    LET h == (nbytes * 100 + 512) \div 1024
    IN  <<ToString(h \div 100), ".", ToString((h % 100) \div 10),
          ToString(h % 10), " KB">>

(***************************************************************************)
(* What one page adds to self.data.                                        *)
(***************************************************************************)
\* A fixed enumeration of a finite set: list(set(urls)) iterates in an order
\* that is arbitrary and the same for equal sets within one process.
RECURSIVE SetToSeq(_)
SetToSeq(S) ==
    IF S = {} THEN << >>
    ELSE LET x == CHOOSE y \in S : TRUE IN <<x>> \o SetToSeq(S \ {x})

TextEntries(p, text) ==
    IF Truthy(text) THEN <<[page |-> p, content |-> text.s]>> ELSE << >>

UrlEntries(p, text) ==
    LET urls == SetToSeq(ExtractUrls(text.s))
    IN  [k \in 1..Len(urls) |-> [page |-> p, url |-> urls[k]]]

NumberEntries(p, text) ==
    LET numbers == ExtractNumbers(text.s)
    IN  IF numbers # << >> THEN <<[page |-> p, numbers |-> numbers]>> ELSE << >>

\* enumerate(tables, start=1)
TableNumber(k) == k

TableEntries(p, tables) ==
    [k \in 1..Len(tables) |->
        [page |-> p, table_number |-> TableNumber(k), data |-> tables[k]]]

\* pdf_reader_program.py: one entry per listed image, nothing is decoded or written.
ListedImageEntries(p, images, dir) ==
    [k \in 1..Len(images) |->
        [page |-> p, image_number |-> k, saved_as |-> ImagePath(dir, p, k, "png")]]

\* The mutant of ImageNumber: the images are numbered by their position among
\* the images recorded for the page.
ImageNumberAmongRecorded(images, i) ==
    Cardinality({k \in 1..i : images[k].status = "ok"})

\* enumerate(image_list, start=1): the position in the page's image list.
ImageNumber(images, i) == i

\* pdf_reader_new.py, the body of the loop over image_list for image i of page
\* p: what is appended to self.data['images'], written to disk and printed by
\* the except clause.
FitzImage(p, images, i, a) ==
    LET img == images[i]
        n == ImageNumber(images, i)
        path == ImagePath(a.output_dir, p, n, img.ext)
        meta == [page |-> p, image_number |-> n, format |-> img.ext,
                 size |-> FormatSize(img.width, img.height),
                 file_size |-> FormatKB(img.nbytes)]
        saved == [page |-> p, image_number |-> n, saved_as |-> path,
                  format |-> img.ext,
                  size |-> FormatSize(img.width, img.height),
                  file_size |-> FormatKB(img.nbytes)]
        warn == <<[page |-> p, image |-> n]>>
        write == IF a.save_images
                 THEN <<[path |-> path, content |-> img.bytes]>> ELSE << >>
    IN  CASE img.status = "bad_extract" ->
               [entries |-> << >>, writes |-> << >>, warns |-> warn]
          [] img.status = "bad_decode" ->
               [entries |-> << >>, writes |-> write, warns |-> warn]
          [] OTHER ->
               [entries |-> IF a.save_images THEN <<saved>> ELSE <<meta>>,
                writes |-> write, warns |-> << >>]

\* The whole loop over image_list for page p.
FitzImages(p, images, a) ==
    LET each == [i \in 1..Len(images) |-> FitzImage(p, images, i, a)]
    IN  [entries |-> Flatten([i \in 1..Len(images) |-> each[i].entries]),
         writes |-> Flatten([i \in 1..Len(images) |-> each[i].writes]),
         warns |-> Flatten([i \in 1..Len(images) |-> each[i].warns])]

(***************************************************************************)
(* The exporters.                                                          *)
(***************************************************************************)
Banner == "============================================================"

\* What save_text_to_file writes for one entry of self.data['text'].
TextBlock(item) ==
    <<"\n", Banner, "\n", "PAGE ", ToString(item.page), "\n", Banner, "\n">>
    \o item.content \o <<"\n">>

TextFileContent(text) == Flatten([k \in 1..Len(text) |-> TextBlock(text[k])])

\* csv.writer, QUOTE_MINIMAL: None is written as the empty field, a field
\* holding the delimiter, a quote or a line break is quoted, quotes doubled.
CsvField(cell) ==
    LET s == cell.s
    IN  IF \E k \in 1..Len(s) : s[k] \in {",", "\"", "\n", "\r"}
        THEN <<"\"">>
             \o Flatten([k \in 1..Len(s) |->
                           IF s[k] = "\"" THEN <<"\"", "\"">> ELSE <<s[k]>>])
             \o <<"\"">>
        ELSE s

\* One row: the fields joined by ",", then "\r\n"; a row of one empty field
\* is written as "".
CsvRow(row) ==
    IF Len(row) = 1 /\ row[1].s = << >> THEN <<"\"", "\"", "\r\n">>
    ELSE Flatten([k \in 1..Len(row) |->
                    (IF k > 1 THEN <<",">> ELSE << >>) \o CsvField(row[k])])
         \o <<"\r\n">>

CsvContent(rows) == Flatten([k \in 1..Len(rows) |-> CsvRow(rows[k])])

TableWrites(dir, tables) ==
    [k \in 1..Len(tables) |->
        [path |-> TablePath(dir, tables[k].page, tables[k].table_number),
         content |-> CsvContent(tables[k].data)]]

(***************************************************************************)
(* extract_all, one action per step.                                       *)
(***************************************************************************)
Pages == pdf.pages

Lengths(d) == [n \in ListNames |-> Len(d[n])]

\* The reference extract_all returns: self.data itself.
ResultRef == [obj |-> "self.data"]

\* The mutant of CallStartData: extract_all starts from empty lists.
CallStartsEmpty(d) == EmptyData

\* self.data when extract_all starts: nothing resets it.
CallStartData(d) == d

\* The record of a call of a public method: times counts how often it has now
\* been called in a row with the same destination.
Called(op, dest) ==
    [op |-> op, dest |-> dest,
     times |-> IF lastOp.op = op /\ lastOp.dest = dest THEN lastOp.times + 1 ELSE 1]

Step(name, p) == [step |-> name, page |-> p]

\* An exception leaves extract_all: closing is what the enclosing scopes do
\* on the way out.
Raise(kind, closing) ==
    /\ pc' = "idle"
    /\ outcome' = kind
    /\ nfailed' = nfailed + 1
    /\ handles' = handles \ closing
    /\ UNCHANGED <<variant, pdf, data, fs, page, args, results, calls, log,
                   mark, fs0, lastOp, nexports>>

\* The mutant of AfterPage: the loop goes on from the page after the next.
AfterPageSkipping(p) == p + 2

\* The page the loop visits after page p.
AfterPage(p) == p + 1

\* Where the pdfplumber loop stands before page p: at its text, or past the
\* last page.
LoopAt(p) == IF p <= Len(Pages) THEN "text" ELSE "return"

\* Lines 36-37 (34-35): the directory is made before anything is opened.
ExtractAllBegin(save_images) ==
    /\ pc = "idle"
    /\ Len(calls) + nfailed < MaxCalls
    /\ args' = [save_images |-> save_images, output_dir |-> "extracted_images"]
    /\ fs' = IF save_images THEN MakeDirs(fs, "extracted_images") ELSE fs
    /\ fs0' = fs
    /\ data' = CallStartData(data)
    /\ mark' = Lengths(CallStartData(data))
    /\ trace' = << >>
    /\ log' = << >>
    /\ outcome' = "running"
    /\ lastOp' = Called("extract_all", <<"extracted_images">>)
    /\ pc' = IF variant = "new" THEN "fitz_open" ELSE "plumber_open"
    /\ UNCHANGED <<variant, pdf, handles, page, results, calls, nfailed, nexports>>

\* pdf_reader_new.py line 86: fitz.open
FitzOpen ==
    /\ pc = "fitz_open"
    /\ IF ~pdf.openable
       THEN Raise("raised_open", {}) /\ UNCHANGED trace
       ELSE /\ handles' = handles \cup {"fitz"}
            /\ page' = 1
            /\ pc' = "fitz_page"
            /\ UNCHANGED <<variant, pdf, data, fs, args, outcome, results, calls,
                           nfailed, trace, log, mark, fs0, lastOp, nexports>>

\* pdf_reader_new.py lines 88-135: one page of the PyMuPDF loop. get_images is
\* outside the try, and nothing closes the document when it raises.
FitzPage ==
    /\ pc = "fitz_page"
    /\ page <= Len(Pages)
    /\ trace' = Append(trace, Step("images", page))
    /\ IF Pages[page].fails = "images"
       THEN Raise("raised_page", {})
       ELSE LET r == FitzImages(page, Pages[page].images, args)
            IN  /\ data' = [data EXCEPT !.images = @ \o r.entries]
                /\ fs' = WriteAll(fs, r.writes)
                /\ log' = log \o r.warns
                /\ page' = AfterPage(page)
                /\ UNCHANGED <<variant, pdf, handles, pc, args, outcome, results,
                               calls, nfailed, mark, fs0, lastOp, nexports>>

\* pdf_reader_new.py line 137: pdf_document.close()
FitzClose ==
    /\ pc = "fitz_page"
    /\ page > Len(Pages)
    /\ handles' = handles \ {"fitz"}
    /\ pc' = "plumber_open"
    /\ UNCHANGED <<variant, pdf, data, fs, page, args, outcome, results, calls,
                   nfailed, trace, log, mark, fs0, lastOp, nexports>>

\* Line 43 (37): with pdfplumber.open(self.pdf_path) as pdf
PlumberOpen ==
    /\ pc = "plumber_open"
    /\ IF ~pdf.openable
       THEN Raise("raised_open", {}) /\ UNCHANGED trace
       ELSE /\ handles' = handles \cup {"plumber"}
            /\ page' = 1
            /\ pc' = LoopAt(1)
            /\ UNCHANGED <<variant, pdf, data, fs, args, outcome, results, calls,
                           nfailed, trace, log, mark, fs0, lastOp, nexports>>

\* Lines 48-53 (42-47): page.extract_text() and the 'text' entry.
ExtractText ==
    /\ pc = "text"
    /\ trace' = Append(trace, Step("text", page))
    /\ IF Pages[page].fails = "text"
       THEN Raise("raised_page", {"plumber"})
       ELSE /\ data' = [data EXCEPT !.text = @ \o TextEntries(page, Pages[page].text)]
            /\ pc' = IF Truthy(Pages[page].text) THEN "scan" ELSE "tables"
            /\ UNCHANGED <<variant, pdf, fs, handles, page, args, outcome, results,
                           calls, nfailed, log, mark, fs0, lastOp, nexports>>

\* Lines 55-69 (49-63): the URL and number scans of a non-empty text.
ScanText ==
    /\ pc = "scan"
    /\ trace' = Append(trace, Step("scan", page))
    /\ data' = [data EXCEPT
                  !.urls = @ \o UrlEntries(page, Pages[page].text),
                  !.numbers = @ \o NumberEntries(page, Pages[page].text)]
    /\ pc' = "tables"
    /\ UNCHANGED <<variant, pdf, fs, handles, page, args, outcome, results, calls,
                   nfailed, log, mark, fs0, lastOp, nexports>>

\* Lines 71-79 (65-73): page.extract_tables() and the 'tables' entries. The
\* program variant lists the page's images next when save_images is set; the
\* new variant has no image step in this loop.
ExtractTables ==
    /\ pc = "tables"
    /\ trace' = Append(trace, Step("tables", page))
    /\ IF Pages[page].fails = "tables"
       THEN Raise("raised_page", {"plumber"})
       ELSE /\ data' = [data EXCEPT
                          !.tables = @ \o TableEntries(page, Pages[page].tables)]
            /\ IF variant = "program" /\ args.save_images
               THEN pc' = "images" /\ page' = page
               ELSE pc' = LoopAt(AfterPage(page)) /\ page' = AfterPage(page)
            /\ UNCHANGED <<variant, pdf, fs, handles, args, outcome, results, calls,
                           nfailed, log, mark, fs0, lastOp, nexports>>

\* pdf_reader_program.py lines 75-83: page.images and the 'images' entries.
ListImages ==
    /\ pc = "images"
    /\ trace' = Append(trace, Step("images", page))
    /\ IF Pages[page].fails = "images"
       THEN Raise("raised_page", {"plumber"})
       ELSE /\ data' = [data EXCEPT !.images =
                          @ \o ListedImageEntries(page, Pages[page].images,
                                                  args.output_dir)]
            /\ pc' = LoopAt(AfterPage(page))
            /\ page' = AfterPage(page)
            /\ UNCHANGED <<variant, pdf, fs, handles, args, outcome, results, calls,
                           nfailed, log, mark, fs0, lastOp, nexports>>

\* Line 81 (85): the with block is left and self.data is returned.
Return ==
    /\ pc = "return"
    /\ handles' = handles \ {"plumber"}
    /\ results' = Append(results, ResultRef)
    /\ calls' = Append(calls, args)
    /\ outcome' = "returned"
    /\ pc' = "idle"
    /\ UNCHANGED <<variant, pdf, data, fs, page, args, nfailed, trace, log, mark,
                   fs0, lastOp, nexports>>

(***************************************************************************)
(* The exporters' actions.                                                 *)
(***************************************************************************)
TextFiles == {<<"extracted_text.txt">>, <<"out.txt">>}

\* save_text_to_file(output_file)
SaveTextToFile(output_file) ==
    /\ pc = "idle"
    /\ nexports < MaxExports
    /\ nexports' = nexports + 1
    /\ fs' = WriteFile(fs, output_file, TextFileContent(data.text))
    /\ lastOp' = Called("save_text_to_file", output_file)
    /\ UNCHANGED <<variant, pdf, data, handles, pc, page, args, outcome, results,
                   calls, nfailed, trace, log, mark, fs0>>

\* save_tables_to_csv(output_dir)
SaveTablesToCsv(output_dir) ==
    /\ pc = "idle"
    /\ nexports < MaxExports
    /\ nexports' = nexports + 1
    /\ fs' = WriteAll(MakeDirs(fs, output_dir), TableWrites(output_dir, data.tables))
    /\ lastOp' = Called("save_tables_to_csv", <<output_dir>>)
    /\ UNCHANGED <<variant, pdf, data, handles, pc, page, args, outcome, results,
                   calls, nfailed, trace, log, mark, fs0>>

(***************************************************************************)
(* The specification of the reader.                                        *)
(***************************************************************************)
RxIdle ==
    /\ rx_text = << >>
    /\ rx_urls = {}
    /\ rx_matches = << >>
    /\ rx_numbers = << >>
    /\ rx_done = {}

\* PDFReader(pdf_path): __init__ sets the five lists to empty.
InitReader ==
    /\ data = EmptyData
    /\ fs = EmptyFs
    /\ handles = {}
    /\ pc = "idle"
    /\ page = 1
    /\ args = [save_images |-> TRUE, output_dir |-> "extracted_images"]
    /\ outcome = "none"
    /\ results = << >>
    /\ calls = << >>
    /\ nfailed = 0
    /\ trace = << >>
    /\ log = << >>
    /\ mark = Lengths(EmptyData)
    /\ fs0 = EmptyFs
    /\ lastOp = [op |-> "none", dest |-> << >>, times |-> 0]
    /\ nexports = 0

Init ==
    /\ variant \in {"new", "program"}
    /\ pdf \in Documents
    /\ InitReader
    /\ RxIdle

Next ==
    \/ \E save_images \in BOOLEAN : ExtractAllBegin(save_images) /\ UNCHANGED rxVars
    \/ FitzOpen /\ UNCHANGED rxVars
    \/ FitzPage /\ UNCHANGED rxVars
    \/ FitzClose /\ UNCHANGED rxVars
    \/ PlumberOpen /\ UNCHANGED rxVars
    \/ ExtractText /\ UNCHANGED rxVars
    \/ ScanText /\ UNCHANGED rxVars
    \/ ExtractTables /\ UNCHANGED rxVars
    \/ ListImages /\ UNCHANGED rxVars
    \/ Return /\ UNCHANGED rxVars

Spec == Init /\ [][Next]_vars

(***************************************************************************)
(* The reader with its exporters, on documents whose pages differ in what  *)
(* the exporters read: the text and the tables.                            *)
(***************************************************************************)
ExportPageKinds ==
    {BasePage,
     [BasePage EXCEPT !.text = Some(TextB), !.tables = <<TableA, TableB>>],
     [BasePage EXCEPT !.text = None, !.tables = << >>]}

ExportDocuments ==
    {[openable |-> TRUE, pages |-> ps] :
        ps \in UNION {[1..n -> ExportPageKinds] : n \in 0..MaxPages}}

InitExport ==
    /\ variant \in {"new", "program"}
    /\ pdf \in ExportDocuments
    /\ InitReader
    /\ RxIdle

NextExport ==
    \/ \E save_images \in BOOLEAN : ExtractAllBegin(save_images) /\ UNCHANGED rxVars
    \/ FitzOpen /\ UNCHANGED rxVars
    \/ FitzPage /\ UNCHANGED rxVars
    \/ FitzClose /\ UNCHANGED rxVars
    \/ PlumberOpen /\ UNCHANGED rxVars
    \/ ExtractText /\ UNCHANGED rxVars
    \/ ScanText /\ UNCHANGED rxVars
    \/ ExtractTables /\ UNCHANGED rxVars
    \/ ListImages /\ UNCHANGED rxVars
    \/ Return /\ UNCHANGED rxVars
    \/ \E f \in TextFiles : SaveTextToFile(f) /\ UNCHANGED rxVars
    \/ SaveTablesToCsv("extracted_tables") /\ UNCHANGED rxVars

SpecExport == InitExport /\ [][NextExport]_vars

(***************************************************************************)
(* The recognizers on their own: _extract_urls and _extract_numbers        *)
(* applied to a text.                                                      *)
(***************************************************************************)
\* "see http://a.com, and http://a.com again"
UrlExample ==
    <<"s", "e", "e", " ", "h", "t", "t", "p", ":", "/", "/", "a", ".", "c",
      "o", "m", ",", " ", "a", "n", "d", " ", "h", "t", "t", "p", ":", "/",
      "/", "a", ".", "c", "o", "m", " ", "a", "g", "a", "i", "n">>

\* "Total: 42 items, -3.5 kg, and 3."
NumberExample ==
    <<"T", "o", "t", "a", "l", ":", " ", "4", "2", " ", "i", "t", "e", "m",
      "s", ",", " ", "-", "3", ".", "5", " ", "k", "g", ",", " ", "a", "n",
      "d", " ", "3", ".">>

UrlSegments ==
    {<<"h", "t", "t", "p", ":", "/", "/">>,
     <<"h", "t", "t", "p", "s", ":", "/", "/">>,
     <<"a">>, <<",">>, <<"/">>, <<"#">>, <<" ">>, <<"%">>,
     <<"%", "2", "F">>, <<"?">>, <<"_">>, <<"~">>}

NumberSegments == {<<"-">>, <<"3">>, <<"0">>, <<".">>, <<" ">>}

\* The concatenations of at most n members of S.
RECURSIVE Concats(_, _)
Concats(S, n) ==
    IF n = 0 THEN {<< >>}
    ELSE LET shorter == Concats(S, n - 1)
         IN  shorter \cup {t \o x : t \in shorter, x \in S}

RxTexts ==
    Concats(UrlSegments, MaxSegs) \cup Concats(NumberSegments, MaxNumLen)
    \cup {UrlExample, NumberExample}

RunExtractUrls ==
    /\ "urls" \notin rx_done
    /\ rx_urls' = ExtractUrls(rx_text)
    /\ rx_done' = rx_done \cup {"urls"}
    /\ UNCHANGED <<rx_text, rx_matches, rx_numbers>>

RunExtractNumbers ==
    /\ "numbers" \notin rx_done
    /\ rx_matches' = NumberMatches(rx_text, 1)
    /\ rx_numbers' = ExtractNumbers(rx_text)
    /\ rx_done' = rx_done \cup {"numbers"}
    /\ UNCHANGED <<rx_text, rx_urls>>

InitRecog ==
    /\ variant = "new"
    /\ pdf = [openable |-> FALSE, pages |-> << >>]
    /\ InitReader
    /\ rx_text \in RxTexts
    /\ rx_urls = {}
    /\ rx_matches = << >>
    /\ rx_numbers = << >>
    /\ rx_done = {}

NextRecog ==
    \/ RunExtractUrls /\ UNCHANGED pipeVars
    \/ RunExtractNumbers /\ UNCHANGED pipeVars

SpecRecog == InitRecog /\ [][NextRecog]_vars

(***************************************************************************)
(* The vocabulary of the claims about the recognizers, written without     *)
(* the recognizers' own definitions.                                       *)
(***************************************************************************)
Digits == {"0", "1", "2", "3", "4", "5", "6", "7", "8", "9"}

Letters ==
    {"a", "b", "c", "d", "e", "f", "g", "h", "i", "j", "k", "l", "m", "n", "o",
     "p", "q", "r", "s", "t", "u", "v", "w", "x", "y", "z",
     "A", "B", "C", "D", "E", "F", "G", "H", "I", "J", "K", "L", "M", "N", "O",
     "P", "Q", "R", "S", "T", "U", "V", "W", "X", "Y", "Z"}

HexDigits == Digits \cup {"a", "b", "c", "d", "e", "f", "A", "B", "C", "D", "E", "F"}

\* The characters the specification lists for a URL's tail.
ListedUrlChars ==
    Letters \cup Digits
    \cup {"$", "-", "_", "@", ".", "&", "+", "!", "*", "(", ")", ","}

\* The characters from "$" to "_" that the list above leaves out.
RangeOnlyUrlChars ==
    {"%", "'", "/", ":", ";", "<", "=", ">", "?", "[", "\\", "]", "^"}

HttpScheme == <<"h", "t", "t", "p", ":", "/", "/">>

HttpsScheme == <<"h", "t", "t", "p", "s", ":", "/", "/">>

HasScheme(u) == HasAt(u, 1, HttpScheme) \/ HasAt(u, 1, HttpsScheme)

\* What follows "://" in u.
UrlTail(u) ==
    IF HasAt(u, 1, HttpsScheme) THEN SubSeq(u, 9, Len(u)) ELSE SubSeq(u, 8, Len(u))

\* s is a run of listed characters and percent-encoded octets.
RECURSIVE ListedUnits(_)
ListedUnits(s) ==
    \/ s = << >>
    \/ s # << >> /\ s[1] \in ListedUrlChars /\ ListedUnits(Tail(s))
    \/ /\ Len(s) >= 3
       /\ s[1] = "%"
       /\ s[2] \in HexDigits
       /\ s[3] \in HexDigits
       /\ ListedUnits(SubSeq(s, 4, Len(s)))

\* A URL starts at text[i]: a scheme and at least one character of class after it.
UrlStartsAt(text, i, class) ==
    \/ HasAt(text, i, HttpScheme) /\ i + 7 <= Len(text) /\ text[i + 7] \in class
    \/ HasAt(text, i, HttpsScheme) /\ i + 8 <= Len(text) /\ text[i + 8] \in class

\* u occurs at text[i] and the character after it, if any, is outside class.
StopsOutside(text, i, u, class) ==
    /\ HasAt(text, i, u)
    /\ i + Len(u) <= Len(text) => text[i + Len(u)] \notin class

\* C7, as the specification states it: every returned URL is a scheme and then
\* one or more units, each a letter, a digit, one of $ - _ @ . & + ! * ( ) ,
\* or a percent-encoded octet; no other character follows "://".
C7_ListedClassOnly ==
    "urls" \in rx_done =>
        \A u \in rx_urls :
            HasScheme(u) /\ UrlTail(u) # << >> /\ ListedUnits(UrlTail(u))

\* C7, amended: _extract_urls returns the set of distinct matches; every
\* returned URL is "http" or "https", "://", and one or more characters each of
\* which is a letter, a digit, "!" or any character from "$" to "_" in ASCII
\* order (so also / : ; < = > ? [ \ ] ^ ' and a bare %); each returned URL
\* occurs in the text and ends just before the first character outside that
\* class (or at the end of the text); and the leftmost place where a scheme is
\* followed by a character of the class yields a returned URL.
C7_RangeClassGreedy ==
    "urls" \in rx_done =>
        LET class == ListedUrlChars \cup RangeOnlyUrlChars
            starts == {i \in 1..Len(rx_text) : UrlStartsAt(rx_text, i, class)}
        IN  /\ \A u \in rx_urls :
                /\ HasScheme(u)
                /\ UrlTail(u) # << >>
                /\ Range(UrlTail(u)) \subseteq class
                /\ \E i \in starts : StopsOutside(rx_text, i, u, class)
            /\ starts # {} =>
                 LET first == CHOOSE i \in starts : \A j \in starts : i <= j
                 IN  \E u \in rx_urls : StopsOutside(rx_text, first, u, class)
            /\ starts = {} => rx_urls = {}

\* A text where a "/" follows the scheme and the match stops before a "#".
C7_Witness ==
    /\ "urls" \in rx_done
    /\ \E u \in rx_urls :
         /\ "/" \in Range(UrlTail(u))
         /\ \E i \in 1..Len(rx_text) :
              /\ HasAt(rx_text, i, u)
              /\ i + Len(u) <= Len(rx_text)
              /\ rx_text[i + Len(u)] = "#"

\* tok is an optional minus, one or more digits, an optional point and
\* optional digits after it.
NumberShape(tok) ==
    LET body == IF tok # << >> /\ tok[1] = "-" THEN Tail(tok) ELSE tok
    IN  \E n \in 1..Len(body) :
            /\ \A k \in 1..n : body[k] \in Digits
            /\ \/ n = Len(body)
               \/ /\ body[n + 1] = "."
                  /\ \A k \in (n + 2)..Len(body) : body[k] \in Digits

RECURSIVE Pow10(_)
Pow10(n) == IF n = 0 THEN 1 ELSE 10 * Pow10(n - 1)

\* The decimal value of the digits of tok, its point and sign left out.
RECURSIVE DecimalDigits(_)
DecimalDigits(tok) ==
    IF tok = << >> THEN 0
    ELSE IF Head(tok) \in Digits
         THEN (CHOOSE d \in 0..9 : ToString(d) = Head(tok)) * Pow10(Cardinality({k \in 2..Len(tok) : tok[k] \in Digits}))
              + DecimalDigits(Tail(tok))
         ELSE DecimalDigits(Tail(tok))

\* The number of digits after the point of tok, 0 without a point.
FractionDigits(tok) ==
    IF "." \in Range(tok)
    THEN Len(tok) - (CHOOSE k \in 1..Len(tok) : tok[k] = ".")
    ELSE 0

SignedDigits(tok) ==
    IF tok[1] = "-" THEN 0 - DecimalDigits(tok) ELSE DecimalDigits(tok)

\* C8: _extract_numbers returns, in left-to-right order and without
\* deduplication, one value per non-overlapping match of an optional minus,
\* digits, an optional point and optional digits; each match is as long as the
\* pattern allows and every digit of the text lies in a match; a token is a float
\* exactly when it holds a ".", otherwise an int, with the token's decimal value
\* (so "3." is the float 3); "Total: 42 items, -3.5 kg, and 3." gives
\* [42 (int), -3.5 (float), 3.0 (float)].
C8_NumberTokens ==
    "numbers" \in rx_done =>
        LET ms == rx_matches
            tok(k) == SubSeq(rx_text, ms[k].start, ms[k].end)
            n == Len(rx_text)
        IN  /\ Len(rx_numbers) = Len(ms)
            /\ \A k \in 1..Len(ms) :
                /\ 1 <= ms[k].start /\ ms[k].start <= ms[k].end /\ ms[k].end <= n
                /\ NumberShape(tok(k))
                /\ k < Len(ms) => ms[k].end < ms[k + 1].start
                /\ ms[k].end < n =>
                     /\ rx_text[ms[k].end + 1] \notin Digits
                     /\ "." \notin Range(tok(k)) => rx_text[ms[k].end + 1] # "."
                /\ (tok(k)[1] # "-" /\ ms[k].start > 1) => rx_text[ms[k].start - 1] # "-"
                /\ rx_numbers[k].kind = IF "." \in Range(tok(k)) THEN "float" ELSE "int"
                /\ rx_numbers[k].kind = "int" => rx_numbers[k].value = SignedDigits(tok(k))
                /\ rx_numbers[k].kind = "float" =>
                     /\ rx_numbers[k].scale \in 0..FractionDigits(tok(k))
                     /\ rx_numbers[k].mant
                          * Pow10(FractionDigits(tok(k)) - rx_numbers[k].scale)
                        = SignedDigits(tok(k))
                /\ tok(k)[Len(tok(k))] = "." =>
                     rx_numbers[k] = [kind |-> "float", scale |-> 0,
                                      mant |-> SignedDigits(tok(k))]
            /\ \A i \in 1..n :
                 rx_text[i] \in Digits =>
                     \E k \in 1..Len(ms) : ms[k].start <= i /\ i <= ms[k].end
            /\ rx_text = NumberExample =>
                 rx_numbers = <<[kind |-> "int", value |-> 42],
                                [kind |-> "float", mant |-> 0 - 35, scale |-> 1],
                                [kind |-> "float", mant |-> 3, scale |-> 0]>>

\* The specification's example has been scanned.
C8_Witness == "numbers" \in rx_done /\ rx_text = NumberExample

(***************************************************************************)
(* The vocabulary of the claims about extract_all and the exporters.       *)
(***************************************************************************)
\* The entries the running (or last) call has appended to a list.
ThisCall(name) == SubSeq(data[name], mark[name] + 1, Len(data[name]))

NonEmptyText(v) == v.none = FALSE /\ Len(v.s) > 0

IsPrefix(s, t) == Len(s) <= Len(t) /\ \A k \in 1..Len(s) : s[k] = t[k]

RECURSIVE Repeat(_, _)
Repeat(s, k) == IF k = 0 THEN << >> ELSE s \o Repeat(s, k - 1)

\* s without the members whose index is not in keep.
Keep(s, keep) ==
    LET idx == SelectSeq([i \in 1..Len(s) |-> i], LAMBDA i : i \in keep)
    IN  [k \in 1..Len(idx) |-> s[idx[k]]]

StepRank(name) ==
    CASE name = "text" -> 1 [] name = "scan" -> 2 [] name = "tables" -> 3
      [] name = "images" -> 4

\* Step a comes before step b in the order the specification gives: by page,
\* and within a page text, scan, tables, images.
PageMajorBefore(a, b) ==
    \/ a.page < b.page
    \/ a.page = b.page /\ StepRank(a.step) < StepRank(b.step)

\* The steps of the pdfplumber loop for page p.
LoopSteps(p) ==
    <<Step("text", p)>>
    \o (IF NonEmptyText(Pages[p].text) THEN <<Step("scan", p)>> ELSE << >>)
    \o <<Step("tables", p)>>
    \o (IF variant = "program" /\ args.save_images
        THEN <<Step("images", p)>> ELSE << >>)

\* The order of the steps of one call: the new variant extracts the images of
\* all pages before the text of the first.
StepOrder ==
    (IF variant = "new"
     THEN [p \in 1..Len(Pages) |-> Step("images", p)] ELSE << >>)
    \o Flatten([p \in 1..Len(Pages) |-> LoopSteps(p)])

\* What one call with arguments a appends to each list of a document it reads
\* to the end.
OneCall(a) ==
    [text |-> Flatten([p \in 1..Len(Pages) |-> TextEntries(p, Pages[p].text)]),
     urls |-> Flatten([p \in 1..Len(Pages) |->
                IF NonEmptyText(Pages[p].text)
                THEN UrlEntries(p, Pages[p].text) ELSE << >>]),
     numbers |-> Flatten([p \in 1..Len(Pages) |->
                IF NonEmptyText(Pages[p].text)
                THEN NumberEntries(p, Pages[p].text) ELSE << >>]),
     tables |-> Flatten([p \in 1..Len(Pages) |-> TableEntries(p, Pages[p].tables)]),
     images |-> IF variant = "new"
                THEN Flatten([p \in 1..Len(Pages) |->
                        FitzImages(p, Pages[p].images, a).entries])
                ELSE IF a.save_images
                THEN Flatten([p \in 1..Len(Pages) |->
                        ListedImageEntries(p, Pages[p].images, a.output_dir)])
                ELSE << >>]

Failing(img) == img.status # "ok"

\* The PyMuPDF pass of the running (or last) call has run to its end, and the
\* call has not raised.
FitzPassDone ==
    /\ variant = "new"
    /\ outcome \in {"running", "returned"}
    /\ pc \notin {"fitz_open", "fitz_page"}

\* C1, as the specification states it for both variants: the steps of one call
\* come page by page, for each page in the order text, scan, tables, images, a
\* scan only after a non-empty text, and a call that returns has extracted the
\* text and the tables of every page exactly once.
C1_PageByPageInBothVariants ==
    /\ \A k \in 1..(Len(trace) - 1) : PageMajorBefore(trace[k], trace[k + 1])
    /\ \A k \in 1..Len(trace) :
         trace[k].step = "scan" => NonEmptyText(Pages[trace[k].page].text)
    /\ outcome = "returned" =>
         \A p \in 1..Len(Pages) : \A name \in {"text", "tables"} :
             Cardinality({k \in 1..Len(trace) : trace[k] = Step(name, p)}) = 1

\* C1, amended: in pdf_reader_program.py one extract_all call visits pages 1..n
\* in ascending order and for every page p performs text extraction, the URL
\* and number scan (only when the text is non-empty), table extraction and,
\* only when save_images is set, the image listing, every step of page p
\* before any step of page p+1. In pdf_reader_new.py the call first extracts
\* the images of pages 1..n in ascending order and only then visits pages 1..n
\* again, performing text extraction, the scan and table extraction per page.
\* At every moment the steps performed are a prefix of that order, and a call
\* that returns has performed all of it, each step once.
C1_StepsFollowVariantOrder ==
    /\ IsPrefix(trace, StepOrder)
    /\ outcome = "returned" => trace = StepOrder

\* A call of the new variant on two pages has returned, with a scan in it.
C1_Witness ==
    /\ variant = "new"
    /\ outcome = "returned"
    /\ Len(Pages) = 2
    /\ \E k \in 1..Len(trace) : trace[k].step = "scan"
    /\ \E k \in 1..Len(trace) : trace[k] = Step("images", 2)

\* C2, as the specification states it: in the new variant the images recorded
\* by a call are those the call would record if the failing images were absent
\* from the document.
C2_AsIfFailingImagesAbsent ==
    FitzPassDone =>
        ThisCall("images")
        = Flatten([p \in 1..Len(Pages) |->
             FitzImages(p, SelectSeq(Pages[p].images, LAMBDA img : ~Failing(img)),
                        args).entries])

\* C2, amended: in the new variant a failure to extract or decode one image
\* object is caught and logged for that image, no images entry is recorded for
\* it and the call does not raise because of it; every other image of that
\* page and of every other page is recorded exactly as it would be if the
\* failing image had been extracted and decoded, keeping the number of its
\* position in the page's image list (the numbers of a page's recorded images
\* then have a gap at the failing image); text, tables, URLs and numbers of all
\* pages are unaffected.
C2_AsIfFailingImagesDecoded ==
    /\ FitzPassDone =>
         /\ ThisCall("images")
            = Flatten([p \in 1..Len(Pages) |->
                 Keep(FitzImages(p,
                        [i \in 1..Len(Pages[p].images) |->
                            IF Failing(Pages[p].images[i])
                            THEN ImgOk ELSE Pages[p].images[i]],
                        args).entries,
                      {i \in 1..Len(Pages[p].images) : ~Failing(Pages[p].images[i])})])
         /\ log = Flatten([p \in 1..Len(Pages) |->
                     Keep([i \in 1..Len(Pages[p].images) |-> [page |-> p, image |-> i]],
                          {i \in 1..Len(Pages[p].images) : Failing(Pages[p].images[i])})])
    /\ (variant = "new" /\ outcome = "raised_page") =>
         \E p \in 1..Len(Pages) : Pages[p].fails # "none"
    /\ (variant = "new" /\ outcome = "returned") =>
         \A name \in {"text", "urls", "numbers", "tables"} :
             ThisCall(name) = OneCall(args)[name]

\* A call of the new variant returned from a document with a failing image
\* followed, on the same page, by a recorded one.
C2_Witness ==
    /\ variant = "new"
    /\ outcome = "returned"
    /\ log # << >>
    /\ \E k \in 1..Len(ThisCall("images")) : ThisCall("images")[k].image_number = 2

\* C3: a failure of text extraction, table extraction or the image listing on
\* one page never leaves extract_all: no call ends by raising it.
C3_PageFailureNeverPropagates == outcome # "raised_page"

\* C4: no document handle is open when extract_all is not running, however
\* the last call ended.
C4_NoHandleOpenAtExit == pc = "idle" => handles = {}

\* C5: after an extract_all call that failed to open the document, the
\* filesystem holds no file or directory that was not there before the call.
C5_NoArtifactOnOpenFailure ==
    (pc = "idle" /\ outcome = "raised_open" /\ lastOp.op = "extract_all") => fs = fs0

\* The page numbers of the entries of text are strictly ascending and there
\* is exactly one entry, with its text, for each page with a non-empty text.
OneEntryPerPageWithText(text) ==
    /\ \A k \in 1..(Len(text) - 1) : text[k].page < text[k + 1].page
    /\ {text[k].page : k \in 1..Len(text)}
       = {p \in 1..Len(Pages) : NonEmptyText(Pages[p].text)}
    /\ \A k \in 1..Len(text) : text[k].content = Pages[text[k].page].text.s

\* C6: the 'text' list of the result returned by extract_all has strictly
\* ascending page numbers and exactly one entry, carrying the page's 1-based
\* number, for each page whose extracted text is non-empty, and none for the
\* other pages.
C6_ResultTextOnePerPage == outcome = "returned" => OneEntryPerPageWithText(data.text)

\* C9: an export called again right after itself, with the same destination,
\* leaves the filesystem as the first call left it.
C9_ExportTwiceChangesNothing ==
    [][(nexports' # nexports /\ lastOp'.times > 1) => fs' = fs]_vars

\* save_tables_to_csv has just been called twice in a row, with tables to write.
C9_Witness ==
    /\ lastOp.op = "save_tables_to_csv"
    /\ lastOp.times = 2
    /\ Len(data.tables) >= 2
    /\ \A k \in 1..Len(data.tables) :
         LET f == TablePath("extracted_tables", data.tables[k].page,
                            data.tables[k].table_number)
         IN  f \in DOMAIN fs.files /\ fs.files[f] # << >>

\* The references returned so far are all self.data.
SameResultObject ==
    /\ Len(results) = Len(calls)
    /\ \A k \in 1..Len(results) : results[k] = ResultRef

\* C10, as stated: after k calls that returned, each of the five lists holds
\* the entries of one of the calls repeated k times.
C10_FiveListsRepeatOneCall ==
    (pc = "idle" /\ nfailed = 0 /\ calls # << >>) =>
        /\ \E c \in 1..Len(calls) : \A name \in ListNames :
               data[name] = Repeat(OneCall(calls[c])[name], Len(calls))
        /\ SameResultObject

\* C10, amended: extract_all never resets self.data and returns that same
\* dictionary, so after k calls on one instance, all of which returned, each of
\* the lists text, tables, urls and numbers holds the entries of a single call
\* repeated k times in call order, and images holds, in call order, the entries
\* each call records for its own save_images argument (a single call's entries
\* repeated k times when the k calls pass the same arguments); the result
\* returned by an earlier call is the same object as every later result.
C10_ListsAccumulate ==
    (pc = "idle" /\ nfailed = 0) =>
        /\ \A name \in ListNames \ {"images"} :
               data[name] = Repeat(OneCall(args)[name], Len(calls))
        /\ data.images = Flatten([c \in 1..Len(calls) |-> OneCall(calls[c]).images])
        /\ SameResultObject

\* Two calls with different save_images returned from a document with text
\* and images.
C10_Witness ==
    /\ pc = "idle"
    /\ nfailed = 0
    /\ Len(calls) = 2
    /\ calls[1].save_images # calls[2].save_images
    /\ data.text # << >>
    /\ data.images # << >>

====
